---- MODULE Spec2Model ----
(***************************************************************************)
(* A model of the two MPI programs of the repository:                      *)
(*   src/phonebook_mpi.cpp   the parallel phonebook search                 *)
(*   src/matrix_mul_mpi.c    the batch matrix multiplication               *)
(*                                                                         *)
(* A character is a one-character string; a text (std::string, char       *)
(* buffer) is a sequence of characters.  C indices are 0-based, sequences  *)
(* are 1-based: index idx of the code is position idx + 1 here.            *)
(***************************************************************************)
EXTENDS Integers, Sequences, FiniteSets, TLC

VARIABLES
    prog,        \* which program runs: "search", "matrix", "plan", "codec", "check",
                 \* "parse"
    size,        \* MPI_Comm_size
    pc,          \* pc[rank]: the position of each process in main
    blocked,     \* blocked[rank]: the rank's last MPI_Send has not returned yet
    chan,        \* chan[<<src, dst>>]: messages in flight on tag 1, in send order
    exitCode,    \* exitCode[rank]: the value main returned, Running before that
    \* ---- phonebook_mpi.cpp
    argc,        \* argc of the run
    search_term, \* argv[argc - 1], the same on every rank
    contacts,    \* contacts[rank]: the rank's vector<Contact>
    total,       \* rank 0: int total
    chunk,       \* rank 0: int chunk
    loop_i,      \* rank 0: the loop variable i of the send and receive loops
    text,        \* text[rank]: the string a send_string in progress is sending
    len,         \* len[rank]: int len of a receive_string in progress
    buf,         \* buf[rank]: the size of the buffer new char[len] allocated
    recv_text,   \* recv_text[rank]: a worker's string recv_text
    result,      \* result[rank]: string result
    output,      \* output.txt: whether main has written it, and its content
    writes,      \* ghost: the ranks that wrote output.txt, in order
    sentLog,     \* ghost: sentLog[<<src, dst>>]: the texts given to send_string
    recvLog,     \* ghost: recvLog[<<src, dst>>]: the completed receive_string calls
    sentMsgs,    \* ghost: sentMsgs[<<src, dst>>]: every message MPI_Send was given
    rcvdMsgs,    \* ghost: rcvdMsgs[<<src, dst>>]: every message MPI_Recv returned
    trace,       \* ghost: trace[rank]: the calls the rank has made, in order
    \* ---- matrix_mul_mpi.c
    K, M, N, P,  \* the matrix dimensions
    A, B, R,     \* rank 0: the input matrices and the gathered result
    localA, localB, localR,  \* per rank: the scattered blocks and the local result
    scatA,       \* MPI_Scatter of A: the blocks sent and not yet received, by rank
    scatB,       \* MPI_Scatter of B: the blocks sent and not yet received, by rank
    gath,        \* MPI_Gather: the blocks sent to rank 0, by rank
    barrier,     \* MPI_Barrier: the ranks that have called it
    bcastNo,     \* bcastNo[rank]: how many of the four MPI_Bcast calls returned
    steps,       \* ghost: the <<rank, step>> pairs executed so far
    \* ---- the pure functions, applied to drawn inputs
    fin,         \* the input drawn
    fout         \* the values computed from it

vars == <<prog, size, pc, blocked, chan, exitCode, argc, search_term, contacts,
          total, chunk, loop_i, text, len, buf, recv_text, result, output,
          writes, sentLog, recvLog, sentMsgs, rcvdMsgs, trace, K, M, N, P, A, B, R,
          localA, localB, localR, scatA, scatB, gath, barrier, bcastNo, steps,
          fin, fout>>

searchState == <<argc, search_term, contacts, total, chunk, loop_i, text, len,
                 buf, recv_text, result, output, writes, sentLog, recvLog, sentMsgs,
                 rcvdMsgs, chan, blocked>>

searchVars == <<searchState, trace>>

matrixVars == <<K, M, N, P, A, B, R, localA, localB, localR, scatA, scatB,
                gath, barrier, bcastNo, steps>>

pureVars == <<fin, fout>>

(***************************************************************************)
(* Bounds of the model.                                                    *)
(***************************************************************************)
MaxS == 3        \* participant counts 1..MaxS
MaxT == 4        \* phonebooks of 0..MaxT records
MaxK == 4        \* batches of 1..MaxK matrices
MaxDim == 2      \* matrix dimensions M, N, P in 1..MaxDim
MaxRecs == 2     \* record lists of 0..MaxRecs records given to the codec
PlanMaxT == 7    \* record counts 0..PlanMaxT given to the planners
PlanMaxS == 5    \* participant counts 1..PlanMaxS given to the planners
MaxName == 3     \* names of 0..MaxName characters given to check
MaxText == 7     \* texts of 0..MaxText characters given to string_to_contacts

Running == -1    \* no value returned yet
NoFile == [exists |-> FALSE, data |-> <<>>]    \* output.txt not written

(***************************************************************************)
(* Characters and texts.                                                   *)
(***************************************************************************)
Comma == ","
Newline == "\n"
Space == " "
Nul == "NUL"     \* the terminator '\0'

Min(a, b) == IF a < b THEN a ELSE b
Max(a, b) == IF a > b THEN a ELSE b

\* s.find(c) for a character c: the 0-based index of the first c, -1 (npos)
\* when there is none
RECURSIVE FindFrom(_, _, _)
FindFrom(s, c, k) ==
    IF k > Len(s) THEN -1
    ELSE IF s[k] = c THEN k - 1
    ELSE FindFrom(s, c, k + 1)

FindChar(s, c) == FindFrom(s, c, 1)

\* s.find(sub) != npos for a string sub: sub occurs in s as a contiguous run
Contains(s, sub) ==
    \E k \in 0..(Len(s) - Len(sub)) :
        \A j \in 1..Len(sub) : s[k + j] = sub[j]

\* s.substr(pos, n), for pos <= s.size()
Substr(s, pos, n) == SubSeq(s, pos + 1, Min(Len(s), pos + n))

\* s.substr(pos), for pos <= s.size()
SubstrFrom(s, pos) == SubSeq(s, pos + 1, Len(s))

\* text.c_str(): the characters of the string followed by the terminator
CStr(s) == s \o <<Nul>>

\* std::string(const char *): the characters before the first terminator
FromCStr(bytes) ==
    LET z == FindChar(bytes, Nul)
    IN  IF z = -1 THEN bytes ELSE SubSeq(bytes, 1, z)

(***************************************************************************)
(* phonebook_mpi.cpp: the functions on records.                            *)
(***************************************************************************)
Contact(n, p) == [name |-> n, phone |-> p]

\* vector_to_string: the lines of contacts[start .. min(size, end) - 1]
RECURSIVE vector_to_string_from(_, _, _)
vector_to_string_from(cs, i, stop) ==
    IF i < stop
    THEN cs[i + 1].name \o <<Comma>> \o cs[i + 1].phone \o <<Newline>>
         \o vector_to_string_from(cs, i + 1, stop)
    ELSE <<>>

vector_to_string(cs, start, end) ==
    vector_to_string_from(cs, start, Min(Len(cs), end))

\* getline(iss, line) until it fails: the text cut at each newline; a read that
\* extracts no character at the end of the text fails, so a text ending in a
\* newline gives no last empty line
RECURSIVE GetLines(_)
GetLines(t) ==
    IF t = <<>> THEN <<>>
    ELSE LET nl == FindChar(t, Newline)
         IN  IF nl = -1 THEN <<t>>
             ELSE <<SubSeq(t, 1, nl)>> \o GetLines(SubSeq(t, nl + 2, Len(t)))

\* a split that leaves the comma in the phone
ParseLineKeepsComma(line) ==
    IF line = <<>> THEN <<>>
    ELSE LET comma == FindChar(line, Comma)
         IN  IF comma = -1 THEN <<>>
             ELSE <<Contact(Substr(line, 0, comma), SubstrFrom(line, comma))>>

\* a loop that keeps a line without a comma as a record without a phone
ParseLineKeepsAll(line) ==
    IF line = <<>> THEN <<>>
    ELSE LET comma == FindChar(line, Comma)
         IN  IF comma = -1 THEN <<Contact(line, <<>>)>>
             ELSE <<Contact(Substr(line, 0, comma), SubstrFrom(line, comma + 1))>>

\* the body of the while loop of string_to_contacts for one line
ParseLine(line) ==
    IF line = <<>> THEN <<>>
    ELSE LET comma == FindChar(line, Comma)
         IN  IF comma = -1 THEN <<>>
             ELSE <<Contact(Substr(line, 0, comma), SubstrFrom(line, comma + 1))>>

RECURSIVE ParseLines(_)
ParseLines(ls) ==
    IF ls = <<>> THEN <<>>
    ELSE ParseLine(Head(ls)) \o ParseLines(Tail(ls))

string_to_contacts(t) == ParseLines(GetLines(t))

\* a test that looks at the phone as well
checkEitherField(c, search) ==
    IF Contains(c.name, search) \/ Contains(c.phone, search)
    THEN c.name \o <<Space>> \o c.phone \o <<Newline>>
    ELSE <<>>

\* check: the hit line of a record whose name contains the search term
check(c, search) ==
    IF Contains(c.name, search)
    THEN c.name \o <<Space>> \o c.phone \o <<Newline>>
    ELSE <<>>

\* the search loops of main: result += check(c, search_term) for the records
\* cs[from .. to - 1] in order
RECURSIVE SearchRange(_, _, _, _)
SearchRange(cs, from, to, search) ==
    IF from < to
    THEN check(cs[from + 1], search) \o SearchRange(cs, from + 1, to, search)
    ELSE <<>>

SearchAll(cs, search) == SearchRange(cs, 0, Len(cs), search)

\* a length that leaves out the terminator
SendLenNoTerminator(t) == Len(t)

\* send_string: int len = text.size() + 1
SendLen(t) == Len(t) + 1

\* send_string: the len characters MPI_Send reads from text.c_str()
SendPayload(t, n) == SubSeq(CStr(t), 1, Min(n, Len(t) + 1))

(***************************************************************************)
(* The partition planners.                                                 *)
(***************************************************************************)
\* a planner that rounds the chunk down
FloorChunk(T, S) == T \div S

\* main of phonebook_mpi.cpp: int chunk = (total + size - 1) / size
TolerantChunk(T, S) == (T + S - 1) \div S

\* lines 121-124: the indices rank 0 searches itself, i = 0 .. min(chunk, total) - 1
CoordRange(T, S) == 0..(Min(TolerantChunk(T, S), T) - 1)

\* a loop that runs to end without looking at contacts.size()
UnclampedStop(T, S, i) == (i + 1) * TolerantChunk(T, S)

\* the first index past the chunk of worker i: the loop of vector_to_string
\* stops at min(contacts.size(), end), with end = (i + 1) * chunk
WorkerStop(T, S, i) == Min(T, (i + 1) * TolerantChunk(T, S))

\* the indices vector_to_string(contacts, i * chunk, (i + 1) * chunk) encodes
\* for worker i
WorkerRange(T, S, i) == (i * TolerantChunk(T, S))..(WorkerStop(T, S, i) - 1)

TolerantRange(T, S, i) == IF i = 0 THEN CoordRange(T, S) ELSE WorkerRange(T, S, i)

\* main of matrix_mul_mpi.c: K / size matrices per rank
StrictChunk(T, S) == T \div S

\* MPI_Scatter and MPI_Gather: block i is the K / size matrices from i * (K / size)
StrictRange(T, S, i) == (i * StrictChunk(T, S))..((i + 1) * StrictChunk(T, S) - 1)

(***************************************************************************)
(* The inputs of the search program.  read_phonebook is file input: the    *)
(* model draws the vector it fills.  getline cuts the file at newlines, so *)
(* no field it extracts holds a newline; a field may hold a comma or a     *)
(* terminator character.                                                   *)
(***************************************************************************)
MinArgs == 3

Argcs == {MinArgs - 1, MinArgs}

Queries == {<<"b">>}

\* a phonebook from which the model takes its inputs: records with an empty
\* field, with a terminator character in the name or in the phone and with a
\* comma in the phone
MasterBook ==
    << Contact(<<"a">>, <<"1">>),
       Contact(<<"b", "a">>, <<>>),
       Contact(<<"c", "b">>, <<"4">>),
       Contact(<<"a", Nul, "b">>, <<"3">>),
       Contact(<<"b">>, <<"2", Comma>>),
       Contact(<<"c">>, <<"5", Nul, "x">>) >>

\* the n records of the master phonebook from position off on, cyclically
Window(off, n) ==
    [k \in 1..n |-> MasterBook[((off + k - 2) % Len(MasterBook)) + 1]]

Datasets == {Window(off, n) : off \in 1..Len(MasterBook), n \in 0..MaxT}

RECURSIVE SeqsUpTo(_, _)
SeqsUpTo(S, n) ==
    IF n = 0 THEN {<<>>}
    ELSE LET shorter == SeqsUpTo(S, n - 1)
         IN  shorter \cup {Append(s, x) : s \in {t \in shorter : Len(t) = n - 1}, x \in S}

Ranks == 0..(size - 1)
Workers == 1..(size - 1)
Pairs == {pr \in Ranks \X Ranks : pr[1] # pr[2]}

(***************************************************************************)
(* MPI point-to-point transfer on tag 1 of MPI_COMM_WORLD.  Messages of    *)
(* one sender to one receiver are matched in send order.  A standard-mode  *)
(* MPI_Send returns either at once (the message is buffered) or when the   *)
(* receiver has taken the message (sync): the implementation chooses.      *)
(***************************************************************************)
Msg(type, data) == [type |-> type, data |-> data]

MPI_Send(src, dst, type, data, sync) ==
    /\ chan' = [chan EXCEPT ![<<src, dst>>] =
                    Append(@, [type |-> type, data |-> data, sync |-> sync])]
    /\ blocked' = [blocked EXCEPT ![src] = sync]
    /\ sentMsgs' = [sentMsgs EXCEPT ![<<src, dst>>] = Append(@, Msg(type, data))]

CanRecv(src, dst) == chan[<<src, dst>>] # <<>>

MPI_Recv(src, dst) ==
    LET m == Head(chan[<<src, dst>>])
    IN  /\ chan' = [chan EXCEPT ![<<src, dst>>] = Tail(@)]
        /\ blocked' = [blocked EXCEPT ![src] = IF m.sync THEN FALSE ELSE @]
        /\ rcvdMsgs' = [rcvdMsgs EXCEPT ![<<src, dst>>] = Append(@, Msg(m.type, m.data))]

\* a rank takes a step only when its last MPI_Send has returned
At(r, where) == r \in Ranks /\ pc[r] = where /\ ~blocked[r]

Goto(r, where) == pc' = [pc EXCEPT ![r] = where]

\* rank r makes a call: send_string or receive_string with a peer, or its
\* search loop, the writing of output.txt or MPI_Finalize
Call(r, kind, peer) ==
    trace' = [trace EXCEPT ![r] = Append(@, [call |-> kind, peer |-> peer])]

matrixIdle ==
    /\ K = 0 /\ M = 0 /\ N = 0 /\ P = 0
    /\ A = <<>> /\ B = <<>> /\ R = <<>>
    /\ localA = <<>> /\ localB = <<>> /\ localR = <<>>
    /\ scatA = <<>> /\ scatB = <<>> /\ gath = <<>> /\ barrier = {}
    /\ bcastNo = <<>> /\ steps = {}

searchIdle ==
    /\ argc = 0 /\ search_term = <<>> /\ contacts = <<>>
    /\ total = 0 /\ chunk = 0 /\ loop_i = 0
    /\ text = <<>> /\ len = <<>> /\ buf = <<>> /\ recv_text = <<>>
    /\ result = <<>> /\ output = NoFile /\ writes = <<>>
    /\ sentLog = <<>> /\ recvLog = <<>> /\ sentMsgs = <<>> /\ rcvdMsgs = <<>>
    /\ chan = <<>> /\ blocked = <<>> /\ trace = <<>>

pureIdle == fin = <<>> /\ fout = <<>>

(***************************************************************************)
(* phonebook_mpi.cpp: main.                                                *)
(***************************************************************************)
InitSearch ==
    /\ prog = "search"
    /\ size \in 1..MaxS
    /\ argc \in Argcs
    /\ pc = [r \in Ranks |-> "start"]
    /\ blocked = [r \in Ranks |-> FALSE]
    /\ exitCode = [r \in Ranks |-> Running]
    /\ chan = [pr \in Pairs |-> <<>>]
    /\ search_term \in Queries
    /\ contacts = [r \in Ranks |-> <<>>]
    /\ total = 0 /\ chunk = 0 /\ loop_i = 0
    /\ text = [r \in Ranks |-> <<>>]
    /\ len = [r \in Ranks |-> 0]
    /\ buf = [r \in Ranks |-> 0]
    /\ recv_text = [r \in Ranks |-> <<>>]
    /\ result = [r \in Ranks |-> <<>>]
    /\ output = NoFile
    /\ writes = <<>>
    /\ sentLog = [pr \in Pairs |-> <<>>]
    /\ recvLog = [pr \in Pairs |-> <<>>]
    /\ sentMsgs = [pr \in Pairs |-> <<>>]
    /\ rcvdMsgs = [pr \in Pairs |-> <<>>]
    /\ trace = [r \in Ranks |-> <<>>]
    /\ matrixIdle
    /\ pureIdle

\* line 92: the test for too few arguments
TooFewArgs == argc < MinArgs

\* a receive loop that starts one rank late
LateLoopStart == 1 + 1

\* lines 113, 128: int i = 1
LoopStart == 1

\* a loop that stops one rank early
LoopRunsShort(i) == i < size - 1

\* a loop that leaves out the ranks whose chunk is empty
LoopRunsNonEmpty(i) == i < size /\ i * chunk < total

\* lines 113, 128: i < size
LoopRuns(i) == i < size

\* a loop that skips every other rank
LoopSkips(i) == i + 1 + 1

\* lines 113, 128: i++
LoopNext(i) == i + 1

\* a rank 0 that collects no result
LoopRunsNever(i) == FALSE

\* the receive loop of line 128, from its first rank on
RecvLoopStart == LoopStart

RecvLoopRuns(i) == LoopRuns(i)

\* a worker that searches and sends before it receives
WorkerSendsFirst == "compute"

\* lines 141-143: the first call of a worker is receive_string(0)
WorkerEntry == "recv_len"

\* lines 92-99: every rank tests argc itself; with too few arguments it
\* finalizes and returns 1
CheckArgs(r) ==
    /\ prog = "search"
    /\ At(r, "start")
    /\ IF TooFewArgs
       THEN /\ Goto(r, "done")
            /\ exitCode' = [exitCode EXCEPT ![r] = 1]
       ELSE /\ Goto(r, IF r = 0 THEN "read" ELSE WorkerEntry)
            /\ UNCHANGED exitCode
    /\ UNCHANGED <<prog, size, trace, blocked, chan, argc, search_term, contacts, total, chunk, loop_i,
                   text, len, buf, recv_text, result, output, writes, sentLog,
                   recvLog, sentMsgs, rcvdMsgs, matrixVars, pureVars>>

\* lines 105-110: rank 0 reads the phonebook and computes total and chunk
ReadPhonebook ==
    /\ prog = "search"
    /\ At(0, "read")
    /\ \E data \in Datasets :
           /\ contacts' = [contacts EXCEPT ![0] = data]
           /\ total' = Len(data)
           /\ chunk' = TolerantChunk(Len(data), size)
    /\ loop_i' = LoopStart
    /\ Goto(0, IF LoopRuns(LoopStart) THEN "send_len" ELSE "compute")
    /\ UNCHANGED <<prog, size, trace, blocked, chan, exitCode, argc, search_term, text,
                   len, buf, recv_text, result, output, writes, sentLog, recvLog,
                   sentMsgs, rcvdMsgs, matrixVars, pureVars>>

\* lines 114-115, 23-24: rank 0 encodes the chunk of worker i and sends the
\* length header of send_string(text, i)
CoordSendLen ==
    /\ prog = "search"
    /\ At(0, "send_len")
    /\ LET t == vector_to_string(contacts[0], loop_i * chunk, (loop_i + 1) * chunk)
       IN  /\ text' = [text EXCEPT ![0] = t]
           /\ sentLog' = [sentLog EXCEPT ![<<0, loop_i>>] = Append(@, t)]
           /\ \E sync \in BOOLEAN : MPI_Send(0, loop_i, "INT", SendLen(t), sync)
    /\ Goto(0, "send_text")
    /\ Call(0, "send", loop_i)
    /\ UNCHANGED <<prog, size, exitCode, argc, search_term, contacts, total, chunk,
                   loop_i, len, buf, recv_text, result, output, writes, recvLog,
                   rcvdMsgs, matrixVars, pureVars>>

\* line 25, then the loop header of line 113: rank 0 sends the payload
CoordSendText ==
    /\ prog = "search"
    /\ At(0, "send_text")
    /\ \E sync \in BOOLEAN :
           MPI_Send(0, loop_i, "CHAR", SendPayload(text[0], SendLen(text[0])), sync)
    /\ loop_i' = LoopNext(loop_i)
    /\ Goto(0, IF LoopRuns(LoopNext(loop_i)) THEN "send_len" ELSE "compute")
    /\ UNCHANGED <<prog, size, trace, exitCode, argc, search_term, contacts, total, chunk,
                   text, len, buf, recv_text, result, output, writes, sentLog,
                   recvLog, rcvdMsgs, matrixVars, pureVars>>

\* lines 119-125: rank 0 searches the first chunk itself
CoordCompute ==
    /\ prog = "search"
    /\ At(0, "compute")
    /\ result' = [result EXCEPT ![0] =
                     SearchRange(contacts[0], 0, Min(chunk, total), search_term)]
    /\ loop_i' = RecvLoopStart
    /\ Goto(0, IF RecvLoopRuns(RecvLoopStart) THEN "recv_len" ELSE "write")
    /\ Call(0, "compute", 0)
    /\ UNCHANGED <<prog, size, blocked, chan, exitCode, argc, search_term, contacts,
                   total, chunk, text, len, buf, recv_text, output, writes, sentLog,
                   recvLog, sentMsgs, rcvdMsgs, matrixVars, pureVars>>

\* lines 31-32: receive_string(sender) receives the header and allocates
RecvLen(r, sender, next) ==
    /\ CanRecv(sender, r)
    /\ LET m == Head(chan[<<sender, r>>])
       IN  IF m.type = "INT"
           THEN /\ len' = [len EXCEPT ![r] = m.data]
                /\ buf' = [buf EXCEPT ![r] = m.data]
                /\ Goto(r, next)
           ELSE /\ Goto(r, "aborted")
                /\ UNCHANGED <<len, buf>>
    /\ MPI_Recv(sender, r)

\* lines 33-36: the payload as receive_string returns it; MPI_Recv fails when
\* the message holds more than len characters
RecvTextFits(r, sender) ==
    LET m == Head(chan[<<sender, r>>])
    IN  m.type = "CHAR" /\ Len(m.data) <= len[r]

RecvTextResult(r, sender) == FromCStr(Head(chan[<<sender, r>>]).data)

RecvTextLog(r, sender) ==
    [recvLog EXCEPT ![<<sender, r>>] =
        Append(@, [hdr |-> len[r], bufsize |-> buf[r],
                   paylen |-> Len(Head(chan[<<sender, r>>]).data),
                   res |-> RecvTextResult(r, sender)])]

\* line 129: rank 0 receives the header of the result of worker i
CoordRecvLen ==
    /\ prog = "search"
    /\ At(0, "recv_len")
    /\ RecvLen(0, loop_i, "recv_text")
    /\ UNCHANGED <<prog, size, trace, exitCode, argc, search_term, contacts, total, chunk,
                   loop_i, text, recv_text, result, output, writes, sentLog, recvLog,
                   sentMsgs, matrixVars, pureVars>>

\* lines 129-130, then the loop header of line 128: rank 0 receives the
\* payload and appends it to result
CoordRecvText ==
    /\ prog = "search"
    /\ At(0, "recv_text")
    /\ CanRecv(loop_i, 0)
    /\ IF RecvTextFits(0, loop_i)
       THEN /\ result' = [result EXCEPT ![0] = @ \o RecvTextResult(0, loop_i)]
            /\ recvLog' = RecvTextLog(0, loop_i)
            /\ loop_i' = LoopNext(loop_i)
            /\ Goto(0, IF RecvLoopRuns(LoopNext(loop_i)) THEN "recv_len" ELSE "write")
            /\ Call(0, "recv", loop_i)
       ELSE /\ Goto(0, "aborted")
            /\ UNCHANGED <<result, recvLog, loop_i, trace>>
    /\ MPI_Recv(loop_i, 0)
    /\ UNCHANGED <<prog, size, exitCode, argc, search_term, contacts, total, chunk,
                   text, len, buf, recv_text, output, writes, sentLog, sentMsgs,
                   matrixVars, pureVars>>

\* lines 134-139: rank 0 writes output.txt and prints its time
CoordWrite ==
    /\ prog = "search"
    /\ At(0, "write")
    /\ output' = [exists |-> TRUE, data |-> result[0]]
    /\ writes' = Append(writes, 0)
    /\ Goto(0, "finalize")
    /\ Call(0, "write", 0)
    /\ UNCHANGED <<prog, size, blocked, chan, exitCode, argc, search_term, contacts,
                   total, chunk, loop_i, text, len, buf, recv_text, result, sentLog,
                   recvLog, sentMsgs, rcvdMsgs, matrixVars, pureVars>>

\* line 143: a worker receives the header of its chunk
WorkerRecvLen(r) ==
    /\ prog = "search"
    /\ r \in Workers
    /\ At(r, "recv_len")
    /\ RecvLen(r, 0, "recv_text")
    /\ UNCHANGED <<prog, size, trace, exitCode, argc, search_term, contacts, total, chunk,
                   loop_i, text, recv_text, result, output, writes, sentLog, recvLog,
                   sentMsgs, matrixVars, pureVars>>

\* line 143: a worker receives the payload of its chunk
WorkerRecvText(r) ==
    /\ prog = "search"
    /\ r \in Workers
    /\ At(r, "recv_text")
    /\ CanRecv(0, r)
    /\ IF RecvTextFits(r, 0)
       THEN /\ recv_text' = [recv_text EXCEPT ![r] = RecvTextResult(r, 0)]
            /\ recvLog' = RecvTextLog(r, 0)
            /\ Goto(r, "compute")
            /\ Call(r, "recv", 0)
       ELSE /\ Goto(r, "aborted")
            /\ UNCHANGED <<recv_text, recvLog, trace>>
    /\ MPI_Recv(0, r)
    /\ UNCHANGED <<prog, size, exitCode, argc, search_term, contacts, total, chunk,
                   loop_i, text, len, buf, result, output, writes, sentLog, sentMsgs,
                   matrixVars, pureVars>>

\* lines 144-153: a worker decodes its chunk and searches it
WorkerCompute(r) ==
    /\ prog = "search"
    /\ r \in Workers
    /\ At(r, "compute")
    /\ contacts' = [contacts EXCEPT ![r] = string_to_contacts(recv_text[r])]
    /\ result' = [result EXCEPT ![r] =
                     SearchAll(string_to_contacts(recv_text[r]), search_term)]
    /\ Goto(r, "send_len")
    /\ Call(r, "compute", r)
    /\ UNCHANGED <<prog, size, blocked, chan, exitCode, argc, search_term, total,
                   chunk, loop_i, text, len, buf, recv_text, output, writes, sentLog,
                   recvLog, sentMsgs, rcvdMsgs, matrixVars, pureVars>>

\* lines 156, 23-24: a worker sends the header of send_string(result, 0)
WorkerSendLen(r) ==
    /\ prog = "search"
    /\ r \in Workers
    /\ At(r, "send_len")
    /\ text' = [text EXCEPT ![r] = result[r]]
    /\ sentLog' = [sentLog EXCEPT ![<<r, 0>>] = Append(@, result[r])]
    /\ \E sync \in BOOLEAN : MPI_Send(r, 0, "INT", SendLen(result[r]), sync)
    /\ Goto(r, "send_text")
    /\ Call(r, "send", 0)
    /\ UNCHANGED <<prog, size, exitCode, argc, search_term, contacts, total, chunk,
                   loop_i, len, buf, recv_text, result, output, writes, recvLog,
                   rcvdMsgs, matrixVars, pureVars>>

\* lines 25, 157: a worker sends the payload and prints its time
WorkerSendText(r) ==
    /\ prog = "search"
    /\ r \in Workers
    /\ At(r, "send_text")
    /\ \E sync \in BOOLEAN :
           MPI_Send(r, 0, "CHAR", SendPayload(text[r], SendLen(text[r])), sync)
    /\ Goto(r, "finalize")
    /\ UNCHANGED <<prog, size, trace, exitCode, argc, search_term, contacts, total, chunk,
                   loop_i, text, len, buf, recv_text, result, output, writes,
                   sentLog, recvLog, rcvdMsgs, matrixVars, pureVars>>

\* lines 160-161: MPI_Finalize and return 0
SearchFinalize(r) ==
    /\ prog = "search"
    /\ At(r, "finalize")
    /\ exitCode' = [exitCode EXCEPT ![r] = 0]
    /\ Goto(r, "done")
    /\ Call(r, "finalize", r)
    /\ UNCHANGED <<prog, size, searchState, matrixVars, pureVars>>

\* the steps of one rank of the search program
SearchStep(r) ==
    \/ CheckArgs(r)
    \/ r = 0 /\ ReadPhonebook
    \/ r = 0 /\ CoordSendLen
    \/ r = 0 /\ CoordSendText
    \/ r = 0 /\ CoordCompute
    \/ r = 0 /\ CoordRecvLen
    \/ r = 0 /\ CoordRecvText
    \/ r = 0 /\ CoordWrite
    \/ WorkerRecvLen(r)
    \/ WorkerRecvText(r)
    \/ WorkerCompute(r)
    \/ WorkerSendLen(r)
    \/ WorkerSendText(r)
    \/ SearchFinalize(r)

NextSearch ==
    \/ \E r \in Ranks : CheckArgs(r)
    \/ ReadPhonebook
    \/ CoordSendLen
    \/ CoordSendText
    \/ CoordCompute
    \/ CoordRecvLen
    \/ CoordRecvText
    \/ CoordWrite
    \/ \E r \in Ranks : WorkerRecvLen(r)
    \/ \E r \in Ranks : WorkerRecvText(r)
    \/ \E r \in Ranks : WorkerCompute(r)
    \/ \E r \in Ranks : WorkerSendLen(r)
    \/ \E r \in Ranks : WorkerSendText(r)
    \/ \E r \in Ranks : SearchFinalize(r)

SpecSearch == InitSearch /\ [][NextSearch]_vars

(***************************************************************************)
(* matrix_mul_mpi.c.  An array int X[a][b][c] is the sequence of its       *)
(* a * b * c elements in memory order: X[k][i][j] is element               *)
(* (k * b + i) * c + j.  The code fixes K = 100 and M = N = P = 50; the    *)
(* model runs the same main on batches and matrices of a few elements.     *)
(***************************************************************************)
Modulus == 100
NumBcasts == 4

\* a % b of C for b > 0: the remainder has the sign of a
CRem(a, b) == IF a >= 0 THEN a % b ELSE 0 - ((0 - a) % b)

\* X[k][i][j] of an array whose last two dimensions are d2 and d3
At3(X, d2, d3, k, i, j) == X[(k * d2 + i) * d3 + j + 1]

\* rand(): the sequence it returns is the implementation's; the model draws it
\* from a few periodic sequences
RandSeqs == { <<7, 13, 199>>, <<1, 100, 250, 42, 99>> }

Rand(rs, n) == rs[(n % Len(rs)) + 1]

\* lines 53-59: A[k][i][j] = rand() % 100, in memory order
InitA(rs, k, m, n) == [e \in 1..(k * m * n) |-> CRem(Rand(rs, e - 1), Modulus)]

\* lines 61-67: B[k][i][j] = rand() % 100, with the calls that follow those of A
InitB(rs, k, m, n, p) ==
    [e \in 1..(k * n * p) |-> CRem(Rand(rs, k * m * n + e - 1), Modulus)]

\* an inner loop that assigns each term instead of adding it
DotModAssign(la, lb, m, n, p, k, i, j, l) ==
    IF l = 0 THEN 0
    ELSE CRem(At3(la, m, n, k, i, l - 1) * At3(lb, n, p, k, l - 1, j), Modulus)

\* lines 84-87: localR[k][i][j] after the first l terms of the inner loop
RECURSIVE DotMod(_, _, _, _, _, _, _, _, _)
DotMod(la, lb, m, n, p, k, i, j, l) ==
    IF l = 0 THEN 0
    ELSE DotMod(la, lb, m, n, p, k, i, j, l - 1)
         + CRem(At3(la, m, n, k, i, l - 1) * At3(lb, n, p, k, l - 1, j), Modulus)

\* a kernel without line 88
KernelElemUnreduced(la, lb, m, n, p, k, i, j) == DotMod(la, lb, m, n, p, k, i, j, n)

\* lines 84-88: the sum of line 86 over l, then the reduction of line 88
KernelElem(la, lb, m, n, p, k, i, j) ==
    CRem(DotMod(la, lb, m, n, p, k, i, j, n), Modulus)

\* lines 81-91: the kernel over cnt matrices, localR in memory order
Kernel(la, lb, cnt, m, n, p) ==
    [e \in 1..(cnt * m * p) |->
        KernelElem(la, lb, m, n, p,
                   (e - 1) \div (m * p), ((e - 1) \div p) % m, (e - 1) % p)]

\* MPI_Scatter(sendbuf, cnt, ...): block r is the cnt elements from r * cnt
ScatterBlock(sendbuf, cnt, r) == SubSeq(sendbuf, r * cnt + 1, (r + 1) * cnt)

\* a gather that stores the blocks in the reverse of rank order
RECURSIVE GatherReversed(_, _)
GatherReversed(blocks, n) ==
    IF n = 0 THEN <<>> ELSE blocks[n - 1] \o GatherReversed(blocks, n - 1)

\* MPI_Gather(..., recvbuf, cnt, ...): the blocks of ranks 0 .. n - 1 in rank order
RECURSIVE GatherBlocks(_, _)
GatherBlocks(blocks, n) ==
    IF n = 0 THEN <<>> ELSE GatherBlocks(blocks, n - 1) \o blocks[n - 1]

InitMatrix ==
    /\ prog = "matrix"
    /\ size \in 1..MaxS
    /\ K \in 1..MaxK
    /\ M \in 1..MaxDim
    /\ N \in 1..MaxDim
    /\ P \in 1..MaxDim
    /\ pc = [r \in Ranks |-> "bcast"]
    /\ exitCode = [r \in Ranks |-> Running]
    /\ bcastNo = [r \in Ranks |-> 0]
    /\ A = <<>> /\ B = <<>> /\ R = <<>>
    /\ localA = [r \in Ranks |-> <<>>]
    /\ localB = [r \in Ranks |-> <<>>]
    /\ localR = [r \in Ranks |-> <<>>]
    /\ scatA = <<>> /\ scatB = <<>> /\ gath = <<>>
    /\ barrier = {}
    /\ steps = {}
    /\ searchIdle
    /\ pureIdle

MAt(r, where) == r \in Ranks /\ pc[r] = where

Did(r, step) == steps' = steps \cup {<<r, step>>}

\* lines 35-38: the four MPI_Bcast calls of K, M, N and P, taken as one step
\* (no rank does anything else between them); a rank other than the root
\* returns from them only once the root has made them
Bcast(r) ==
    /\ prog = "matrix"
    /\ MAt(r, "bcast")
    /\ r # 0 => bcastNo[0] = NumBcasts
    /\ bcastNo' = [bcastNo EXCEPT ![r] = NumBcasts]
    /\ Goto(r, "validate")
    /\ UNCHANGED <<prog, size, exitCode, K, M, N, P, A, B, R, localA, localB,
                   localR, scatA, scatB, gath, barrier, steps, searchVars, pureVars>>

\* a test that only the root makes
RejectsAtRootOnly(r) == r = 0 /\ K % size # 0

\* a run that skips the test
RejectsNever(r) == FALSE

\* line 41: the test rank r makes
Rejects(r) == K % size # 0

\* lines 41-45: every rank tests K % size itself; when it is not 0 the rank
\* prints the message, finalizes and returns 1
Validate(r) ==
    /\ prog = "matrix"
    /\ MAt(r, "validate")
    /\ IF Rejects(r)
       THEN /\ Goto(r, "done")
            /\ exitCode' = [exitCode EXCEPT ![r] = 1]
       ELSE /\ Goto(r, IF r = 0 THEN "init" ELSE "scatterA")
            /\ UNCHANGED exitCode
    /\ UNCHANGED <<prog, size, matrixVars, searchVars, pureVars>>

\* lines 51-68: rank 0 fills A and B
InitAB ==
    /\ prog = "matrix"
    /\ MAt(0, "init")
    /\ \E rs \in RandSeqs :
           /\ A' = InitA(rs, K, M, N)
           /\ B' = InitB(rs, K, M, N, P)
    /\ Goto(0, "scatterA")
    /\ UNCHANGED <<prog, size, exitCode, K, M, N, P, R, localA, localB, localR,
                   scatA, scatB, gath, barrier, bcastNo, steps, searchVars,
                   pureVars>>

\* line 74 at rank 0: block r of A goes to rank r, block 0 into its own localA
ScatterARoot ==
    /\ prog = "matrix"
    /\ MAt(0, "scatterA")
    /\ LET cnt == StrictChunk(K, size) * M * N
       IN  /\ scatA' = [r \in Workers |-> ScatterBlock(A, cnt, r)]
           /\ localA' = [localA EXCEPT ![0] = ScatterBlock(A, cnt, 0)]
    /\ Did(0, "scatter")
    /\ Goto(0, "scatterB")
    /\ UNCHANGED <<prog, size, exitCode, K, M, N, P, A, B, R, localB, localR,
                   scatB, gath, barrier, bcastNo, searchVars, pureVars>>

\* line 74 at another rank: it returns once its block has arrived
ScatterARecv(r) ==
    /\ prog = "matrix"
    /\ r \in Workers
    /\ MAt(r, "scatterA")
    /\ r \in DOMAIN scatA
    /\ localA' = [localA EXCEPT ![r] = scatA[r]]
    /\ Did(r, "scatter")
    /\ Goto(r, "scatterB")
    /\ UNCHANGED <<prog, size, exitCode, K, M, N, P, A, B, R, localB, localR,
                   scatA, scatB, gath, barrier, bcastNo, searchVars, pureVars>>

\* line 75 at rank 0
ScatterBRoot ==
    /\ prog = "matrix"
    /\ MAt(0, "scatterB")
    /\ LET cnt == StrictChunk(K, size) * N * P
       IN  /\ scatB' = [r \in Workers |-> ScatterBlock(B, cnt, r)]
           /\ localB' = [localB EXCEPT ![0] = ScatterBlock(B, cnt, 0)]
    /\ Did(0, "scatter")
    /\ Goto(0, "compute")
    /\ UNCHANGED <<prog, size, exitCode, K, M, N, P, A, B, R, localA, localR,
                   scatA, gath, barrier, bcastNo, searchVars, pureVars>>

\* line 75 at another rank
ScatterBRecv(r) ==
    /\ prog = "matrix"
    /\ r \in Workers
    /\ MAt(r, "scatterB")
    /\ r \in DOMAIN scatB
    /\ localB' = [localB EXCEPT ![r] = scatB[r]]
    /\ Did(r, "scatter")
    /\ Goto(r, "compute")
    /\ UNCHANGED <<prog, size, exitCode, K, M, N, P, A, B, R, localA, localR,
                   scatA, scatB, gath, barrier, bcastNo, searchVars, pureVars>>

\* lines 78-94: the local multiplication
Compute(r) ==
    /\ prog = "matrix"
    /\ MAt(r, "compute")
    /\ localR' = [localR EXCEPT ![r] =
                     Kernel(localA[r], localB[r], StrictChunk(K, size), M, N, P)]
    /\ Did(r, "compute")
    /\ Goto(r, "gather")
    /\ UNCHANGED <<prog, size, exitCode, K, M, N, P, A, B, R, localA, localB,
                   scatA, scatB, gath, barrier, bcastNo, searchVars, pureVars>>

\* line 97 at a rank other than the root: it sends localR and returns
GatherSend(r) ==
    /\ prog = "matrix"
    /\ r \in Workers
    /\ MAt(r, "gather")
    /\ gath' = (r :> localR[r]) @@ gath
    /\ Did(r, "gather")
    /\ Goto(r, "barrier")
    /\ UNCHANGED <<prog, size, exitCode, K, M, N, P, A, B, R, localA, localB,
                   localR, scatA, scatB, barrier, bcastNo, searchVars, pureVars>>

\* line 97 at rank 0: it returns once the block of every rank has arrived and
\* R holds the blocks in rank order
GatherRoot ==
    /\ prog = "matrix"
    /\ MAt(0, "gather")
    /\ \A r \in Workers : r \in DOMAIN gath
    /\ R' = GatherBlocks((0 :> localR[0]) @@ gath, size)
    /\ Did(0, "gather")
    /\ Goto(0, "barrier")
    /\ UNCHANGED <<prog, size, exitCode, K, M, N, P, A, B, localA, localB, localR,
                   scatA, scatB, gath, barrier, bcastNo, searchVars, pureVars>>

\* line 108: a rank calls MPI_Barrier
BarrierEnter(r) ==
    /\ prog = "matrix"
    /\ MAt(r, "barrier")
    /\ barrier' = barrier \cup {r}
    /\ Goto(r, "in_barrier")
    /\ UNCHANGED <<prog, size, exitCode, K, M, N, P, A, B, R, localA, localB,
                   localR, scatA, scatB, gath, bcastNo, steps, searchVars, pureVars>>

\* a barrier that lets a rank through at once
BarrierNoWait == TRUE

\* line 108: every rank of MPI_COMM_WORLD has called MPI_Barrier
BarrierComplete == barrier = Ranks

\* line 108: MPI_Barrier returns once every rank has called it
BarrierLeave(r) ==
    /\ prog = "matrix"
    /\ MAt(r, "in_barrier")
    /\ BarrierComplete
    /\ Goto(r, "print")
    /\ UNCHANGED <<prog, size, exitCode, matrixVars, searchVars, pureVars>>

\* line 111: the timing line
PrintTime(r) ==
    /\ prog = "matrix"
    /\ MAt(r, "print")
    /\ Did(r, "print")
    /\ Goto(r, "finalize")
    /\ UNCHANGED <<prog, size, exitCode, K, M, N, P, A, B, R, localA, localB,
                   localR, scatA, scatB, gath, barrier, bcastNo, searchVars,
                   pureVars>>

\* lines 113-114: MPI_Finalize and return 0
MatrixFinalize(r) ==
    /\ prog = "matrix"
    /\ MAt(r, "finalize")
    /\ exitCode' = [exitCode EXCEPT ![r] = 0]
    /\ Goto(r, "done")
    /\ UNCHANGED <<prog, size, matrixVars, searchVars, pureVars>>

\* the steps of one rank of the matrix program
MatrixStep(r) ==
    \/ Bcast(r)
    \/ Validate(r)
    \/ r = 0 /\ InitAB
    \/ r = 0 /\ ScatterARoot
    \/ ScatterARecv(r)
    \/ r = 0 /\ ScatterBRoot
    \/ ScatterBRecv(r)
    \/ Compute(r)
    \/ GatherSend(r)
    \/ r = 0 /\ GatherRoot
    \/ BarrierEnter(r)
    \/ BarrierLeave(r)
    \/ PrintTime(r)
    \/ MatrixFinalize(r)

NextMatrix ==
    \/ \E r \in Ranks : Bcast(r)
    \/ \E r \in Ranks : Validate(r)
    \/ InitAB
    \/ ScatterARoot
    \/ \E r \in Ranks : ScatterARecv(r)
    \/ ScatterBRoot
    \/ \E r \in Ranks : ScatterBRecv(r)
    \/ \E r \in Ranks : Compute(r)
    \/ \E r \in Ranks : GatherSend(r)
    \/ GatherRoot
    \/ \E r \in Ranks : BarrierEnter(r)
    \/ \E r \in Ranks : BarrierLeave(r)
    \/ \E r \in Ranks : PrintTime(r)
    \/ \E r \in Ranks : MatrixFinalize(r)

SpecMatrix == InitMatrix /\ [][NextMatrix]_vars

(***************************************************************************)
(* The partition planners applied to drawn record and participant counts.  *)
(* The strict planner runs only for the counts Validate lets through.      *)
(***************************************************************************)
InitPlan ==
    /\ prog = "plan"
    /\ size \in 1..PlanMaxS
    /\ fin \in [T : 0..PlanMaxT, policy : {"tolerant", "strict"}]
    /\ fout = <<>>
    /\ pc = [r \in {0} |-> "input"]
    /\ exitCode = [r \in {0} |-> Running]
    /\ searchIdle
    /\ matrixIdle

PlanTolerant ==
    /\ prog = "plan"
    /\ pc[0] = "input"
    /\ fin.policy = "tolerant"
    /\ fout' = [r \in Ranks |-> TolerantRange(fin.T, size, r)]
    /\ Goto(0, "planned")
    /\ UNCHANGED <<prog, size, exitCode, fin, searchVars, matrixVars>>

PlanStrict ==
    /\ prog = "plan"
    /\ pc[0] = "input"
    /\ fin.policy = "strict"
    /\ fin.T % size = 0
    /\ fout' = [r \in Ranks |-> StrictRange(fin.T, size, r)]
    /\ Goto(0, "planned")
    /\ UNCHANGED <<prog, size, exitCode, fin, searchVars, matrixVars>>

NextPlan == PlanTolerant \/ PlanStrict

SpecPlan == InitPlan /\ [][NextPlan]_vars

\* ranges[0 .. S - 1] cover 0 .. T - 1, every index once, in rank order
TilesInRankOrder(T, S, ranges) ==
    /\ \A r \in 0..(S - 1) : ranges[r] \subseteq 0..(T - 1)
    /\ \A idx \in 0..(T - 1) :
           Cardinality({r \in 0..(S - 1) : idx \in ranges[r]}) = 1
    /\ \A r1 \in 0..(S - 1) : \A r2 \in 0..(S - 1) :
           r1 < r2 => \A a \in ranges[r1] : \A b \in ranges[r2] : a < b

\* C1: for every T >= 0 and S >= 1 the ranges of the tolerant planner, and for
\* every T divisible by S the ranges of the strict planner, hold every index
\* of [0, T) exactly once, with no gap and no overlap, in rank order.
C1_PlannerTiles ==
    (prog = "plan" /\ pc[0] = "planned") => TilesInRankOrder(fin.T, size, fout)

\* a tolerant plan whose last chunk is cut short and a later rank is left empty
C1_Witness ==
    /\ prog = "plan" /\ pc[0] = "planned"
    /\ fin.policy = "tolerant"
    /\ size >= 3
    /\ fin.T % size # 0
    /\ \E r \in Ranks : fout[r] # {} /\ Cardinality(fout[r]) < TolerantChunk(fin.T, size)
    /\ fout[size - 1] = {}

\* C2 as stated: under tolerant partitioning the last rank holds
\* T - (S-1) * ceil(T/S) records and no other block is shorter than ceil(T/S).
C2_AsStated ==
    (prog = "plan" /\ pc[0] = "planned" /\ fin.policy = "tolerant") =>
        /\ Cardinality(fout[size - 1]) = fin.T - (size - 1) * TolerantChunk(fin.T, size)
        /\ \A r \in 0..(size - 2) :
               ~(Cardinality(fout[r]) < TolerantChunk(fin.T, size))

\* C2 amended: under tolerant partitioning the last rank holds
\* max(0, T - (S-1) * ceil(T/S)) records, no block is longer than ceil(T/S),
\* and a block shorter than ceil(T/S) is followed only by empty blocks; when
\* T >= (S-1) * ceil(T/S) the last block is the only one that can be short.
C2_LastBlock ==
    (prog = "plan" /\ pc[0] = "planned" /\ fin.policy = "tolerant") =>
        LET c == TolerantChunk(fin.T, size)
        IN  /\ Cardinality(fout[size - 1]) = Max(0, fin.T - (size - 1) * c)
            /\ \A r \in Ranks : Cardinality(fout[r]) <= c
            /\ \A r \in Ranks :
                   Cardinality(fout[r]) < c =>
                       \A later \in Ranks : later > r => fout[later] = {}
            /\ fin.T >= (size - 1) * c =>
                   \A r \in 0..(size - 2) : Cardinality(fout[r]) = c

\* a plan in which T - (S-1) * ceil(T/S) is negative
C2_Witness ==
    /\ prog = "plan" /\ pc[0] = "planned" /\ fin.policy = "tolerant"
    /\ fin.T - (size - 1) * TolerantChunk(fin.T, size) < 0
    /\ fin.T > 0

(***************************************************************************)
(* The record codec applied to drawn record lists: vector_to_string over   *)
(* the whole list, then string_to_contacts.                                *)
(***************************************************************************)
CodecFields ==
    { <<>>, <<"a">>, <<"a", "b">>, <<"a", Comma>>, <<Newline, "b">>, <<"b", Nul>> }

CodecRecords == {Contact(n, p) : n \in CodecFields, p \in CodecFields}

InitCodec ==
    /\ prog = "codec"
    /\ size = 1
    /\ fin \in SeqsUpTo(CodecRecords, MaxRecs)
    /\ fout = [text |-> <<>>, recs |-> <<>>]
    /\ pc = [r \in {0} |-> "input"]
    /\ exitCode = [r \in {0} |-> Running]
    /\ searchIdle
    /\ matrixIdle

Encode ==
    /\ prog = "codec"
    /\ pc[0] = "input"
    /\ fout' = [fout EXCEPT !.text = vector_to_string(fin, 0, Len(fin))]
    /\ Goto(0, "encoded")
    /\ UNCHANGED <<prog, size, exitCode, fin, searchVars, matrixVars>>

Decode ==
    /\ prog = "codec"
    /\ pc[0] = "encoded"
    /\ fout' = [fout EXCEPT !.recs = string_to_contacts(fout.text)]
    /\ Goto(0, "decoded")
    /\ UNCHANGED <<prog, size, exitCode, fin, searchVars, matrixVars>>

NextCodec == Encode \/ Decode

SpecCodec == InitCodec /\ [][NextCodec]_vars

(***************************************************************************)
(* The search program with a worker that fails.  At most one worker        *)
(* crashes or hangs, at any point of main before its send_string(result,   *)
(* 0) has sent both messages; from then on it takes no step.  The messages *)
(* it has sent stay in flight.                                             *)
(***************************************************************************)
\* lines 141-156 and 23-25: the positions of a worker before the payload of its
\* result frame is sent
CrashPoints == {"start", "recv_len", "recv_text", "compute", "send_len", "send_text"}

Crashed(w) == w \in Workers /\ pc[w] = "crashed"

Crash(w) ==
    /\ prog = "search"
    /\ w \in Workers
    /\ pc[w] \in CrashPoints
    /\ \A v \in Ranks : pc[v] # "crashed"
    /\ Goto(w, "crashed")
    /\ UNCHANGED <<prog, size, exitCode, searchVars, matrixVars, pureVars>>

\* what the records hold plays no part in a failure: the phonebook is the
\* first total records of the master phonebook
OneBook == contacts[0] = Window(1, total)

\* the steps of the ranks that have not failed
NextRunning ==
    \/ \E r \in Ranks : CheckArgs(r)
    \/ ReadPhonebook /\ OneBook'
    \/ CoordSendLen
    \/ CoordSendText
    \/ CoordCompute
    \/ CoordRecvLen
    \/ CoordRecvText
    \/ CoordWrite
    \/ \E r \in Ranks : WorkerRecvLen(r)
    \/ \E r \in Ranks : WorkerRecvText(r)
    \/ \E r \in Ranks : WorkerCompute(r)
    \/ \E r \in Ranks : WorkerSendLen(r)
    \/ \E r \in Ranks : WorkerSendText(r)
    \/ \E r \in Ranks : SearchFinalize(r)

NextCrash ==
    \/ NextRunning
    \/ \E w \in Ranks : Crash(w)

SpecCrash == InitSearch /\ [][NextCrash]_vars

\* the ranks that have not failed keep running
FairCrash == SpecCrash /\ WF_vars(NextRunning)

(***************************************************************************)
(* check applied to drawn records and search terms.  A search term is an   *)
(* argv string: it holds no terminator character.                          *)
(***************************************************************************)
CheckChars == {"a", "b", "B"}

CheckNames == SeqsUpTo(CheckChars, MaxName)

CheckPhones == { <<>>, <<"b">>, <<"1", "a", "b">> }

CheckQueries == { <<>>, <<"b">>, <<"a", "b">>, <<"B">>, <<"b", "a", "b", "a">> }

InitCheck ==
    /\ prog = "check"
    /\ size = 1
    /\ fin \in [c : {Contact(n, p) : n \in CheckNames, p \in CheckPhones},
                 q : CheckQueries]
    /\ fout = <<>>
    /\ pc = [r \in {0} |-> "input"]
    /\ exitCode = [r \in {0} |-> Running]
    /\ searchIdle
    /\ matrixIdle

Check ==
    /\ prog = "check"
    /\ pc[0] = "input"
    /\ fout' = check(fin.c, fin.q)
    /\ Goto(0, "checked")
    /\ UNCHANGED <<prog, size, exitCode, fin, searchVars, matrixVars>>

NextCheck == Check

SpecCheck == InitCheck /\ [][NextCheck]_vars

(***************************************************************************)
(* string_to_contacts applied to drawn texts.                              *)
(***************************************************************************)
TextChars == {"a", Comma, Newline}

InitParse ==
    /\ prog = "parse"
    /\ size = 1
    /\ fin \in SeqsUpTo(TextChars, MaxText)
    /\ fout = <<>>
    /\ pc = [r \in {0} |-> "input"]
    /\ exitCode = [r \in {0} |-> Running]
    /\ searchIdle
    /\ matrixIdle

Parse ==
    /\ prog = "parse"
    /\ pc[0] = "input"
    /\ fout' = string_to_contacts(fin)
    /\ Goto(0, "parsed")
    /\ UNCHANGED <<prog, size, exitCode, fin, searchVars, matrixVars>>

NextParse == Parse

SpecParse == InitParse /\ [][NextParse]_vars

(***************************************************************************)
(* The two programs together.  Every rank is a process of its own that     *)
(* the system keeps running: while some rank can take a step, a step is    *)
(* taken.                                                                  *)
(***************************************************************************)
Init == InitSearch \/ InitMatrix

Next == NextSearch \/ NextMatrix

Spec == Init /\ [][Next]_vars

FairSearch == SpecSearch /\ WF_vars(NextSearch)

FairMatrix == SpecMatrix /\ WF_vars(NextMatrix)

FairSpec == Spec /\ WF_vars(Next)

(***************************************************************************)
(* The search program when every MPI_Send is synchronous: it returns only  *)
(* once the receiver has taken the message.                                *)
(***************************************************************************)
SyncOnly == \A pr \in Pairs : \A k \in 1..Len(chan[pr]) : chan[pr][k].sync

NextSyncSearch ==
    \/ \E r \in Ranks : CheckArgs(r)
    \/ ReadPhonebook
    \/ CoordSendLen /\ SyncOnly'
    \/ CoordSendText /\ SyncOnly'
    \/ CoordCompute
    \/ CoordRecvLen
    \/ CoordRecvText
    \/ CoordWrite
    \/ \E r \in Ranks : WorkerRecvLen(r)
    \/ \E r \in Ranks : WorkerRecvText(r)
    \/ \E r \in Ranks : WorkerCompute(r)
    \/ \E r \in Ranks : WorkerSendLen(r) /\ SyncOnly'
    \/ \E r \in Ranks : WorkerSendText(r) /\ SyncOnly'
    \/ \E r \in Ranks : SearchFinalize(r)

SpecSyncSearch == InitSearch /\ [][NextSyncSearch]_vars

FairSyncSearch == SpecSyncSearch /\ WF_vars(NextSyncSearch)

(***************************************************************************)
(* Configuration errors.                                                   *)
(***************************************************************************)
AllExited(code) == \A r \in Ranks : pc[r] = "done" /\ exitCode[r] = code

DataSteps == {"scatter", "compute", "gather"}

\* C3: in the matrix program, when K % size != 0, no rank executes a Scatter,
\* compute or Gather step, every rank that returns returns 1, and the run
\* does not stop before every rank has returned.
C3_StrictRejects ==
    (prog = "matrix" /\ K % size # 0) =>
        /\ \A r \in Ranks : \A st \in DataSteps : <<r, st>> \notin steps
        /\ \A r \in Ranks : pc[r] \in {"bcast", "validate", "done"}
        /\ \A r \in Ranks : exitCode[r] \in {Running, 1}
        /\ \A r \in Ranks : pc[r] = "done" => exitCode[r] = 1
        /\ (\E r \in Ranks : pc[r] # "done") => ENABLED NextMatrix

\* a rejected run of several ranks, all of which have returned 1
C3_Witness ==
    /\ prog = "matrix" /\ K % size # 0 /\ size >= 2
    /\ AllExited(1)
    /\ steps = {}

ConfigError ==
    \/ prog = "search" /\ argc < MinArgs
    \/ prog = "matrix" /\ K % size # 0

\* the positions of the distribution phase: the framed sends and receives of
\* the chunks, the filling and the Scatter of A and B
DistributionPcs ==
    IF prog = "search"
    THEN {"read", "send_len", "send_text", "recv_len", "recv_text"}
    ELSE {"init", "scatterA", "scatterB"}

\* C4: on a configuration error (argc < 3 in the search program, K % size != 0
\* in the matrix program) no rank is ever in the distribution phase, nothing
\* is sent or scattered, every rank that returns returns 1, and every rank
\* eventually returns 1.
C4_RejectionSeenByAll ==
    /\ [](ConfigError =>
            /\ \A r \in Ranks : pc[r] \notin DistributionPcs
            /\ \A r \in Ranks : exitCode[r] \in {Running, 1}
            /\ prog = "search" => \A pr \in Pairs : sentMsgs[pr] = <<>>
            /\ prog = "matrix" => scatA = <<>> /\ scatB = <<>> /\ steps = {})
    /\ (ConfigError ~> AllExited(1))

\* a search run with too few arguments in which a worker has returned 1 and
\* the coordinator has not returned yet
C4_Witness ==
    /\ prog = "search" /\ argc < MinArgs /\ size >= 3
    /\ exitCode[0] = Running
    /\ \E r \in Workers : exitCode[r] = 1

(***************************************************************************)
(* Framed transfers of the search program.                                 *)
(***************************************************************************)
SufficientArgs == prog = "search" /\ argc >= MinArgs

IsPrefix(a, b) == Len(a) <= Len(b) /\ SubSeq(b, 1, Len(a)) = a

\* the messages in flight from one rank to another, without their send mode
InFlight(pr) == [k \in 1..Len(chan[pr]) |-> Msg(chan[pr][k].type, chan[pr][k].data)]

\* what was received on a channel is a prefix of what was sent on it, and the
\* rest is still in flight, in send order
MatchedInOrder ==
    \A pr \in Pairs :
        /\ IsPrefix(rcvdMsgs[pr], sentMsgs[pr])
        /\ sentMsgs[pr] = rcvdMsgs[pr] \o InFlight(pr)

Drained == \A pr \in Pairs : chan[pr] = <<>> /\ rcvdMsgs[pr] = sentMsgs[pr]

AllDone == \A r \in Ranks : pc[r] = "done"

\* C5: in a run of the search program with sufficient arguments the messages
\* received on every channel are the messages sent on it, each once and in
\* send order; no MPI_Recv fails or stays unmatched: every rank eventually
\* returns 0, and once all have returned no channel holds a message.
C5_FramesMatched ==
    /\ [](SufficientArgs =>
            /\ MatchedInOrder
            /\ \A r \in Ranks : pc[r] # "aborted"
            /\ AllDone => Drained)
    /\ (SufficientArgs ~> AllExited(0))

\* a finished run of three ranks: two frames went to each worker and two came
\* back from each
C5_Witness ==
    /\ SufficientArgs /\ size = 3 /\ AllExited(0)
    /\ \A pr \in Pairs :
           (pr[1] = 0 \/ pr[2] = 0) => Len(rcvdMsgs[pr]) = 2

\* C6: for every completed receive_string paired with a send_string(text, r)
\* on the channel s -> r: the header is text.size() + 1, the header is received
\* before the payload, the buffer has the header's size, the payload has as many
\* characters, and the string returned equals text when text holds no
\* terminator character, the empty text included.
C6_FramedTransfer ==
    prog = "search" =>
        \A pr \in Pairs :
            /\ Len(recvLog[pr]) <= Len(sentLog[pr])
            /\ \A k \in 1..Len(rcvdMsgs[pr]) :
                   rcvdMsgs[pr][k].type = (IF k % 2 = 1 THEN "INT" ELSE "CHAR")
            /\ \A k \in 1..Len(recvLog[pr]) :
                   LET t == sentLog[pr][k]
                       e == recvLog[pr][k]
                   IN  /\ e.hdr = Len(t) + 1
                       /\ rcvdMsgs[pr][2 * k - 1].data = e.hdr
                       /\ e.bufsize = e.hdr
                       /\ e.paylen = e.hdr
                       /\ Len(rcvdMsgs[pr][2 * k].data) = e.hdr
                       /\ FindChar(t, Nul) = -1 => e.res = t

\* a worker has received an empty chunk and another worker a chunk of records
C6_Witness ==
    /\ prog = "search"
    /\ \E r1 \in Workers : \E r2 \in Workers :
           /\ Len(recvLog[<<0, r1>>]) = 1
           /\ sentLog[<<0, r1>>][1] = <<>>
           /\ recvLog[<<0, r1>>][1].res = <<>>
           /\ recvLog[<<0, r1>>][1].hdr = 1
           /\ Len(recvLog[<<0, r2>>]) = 1
           /\ recvLog[<<0, r2>>][1].res # <<>>
           /\ recvLog[<<0, r2>>][1].res = sentLog[<<0, r2>>][1]

(***************************************************************************)
(* Results.                                                                *)
(***************************************************************************)
GatherDone == prog = "matrix" /\ <<0, "gather">> \in steps

\* C7: in the matrix program, for every size that divides K, the R that
\* MPI_Gather leaves at rank 0 is the kernel's result on the whole A and B,
\* and block i of R is the kernel's result on block i of A and B.
C7_GatherEqualsWholeKernel ==
    GatherDone =>
        LET cnt == StrictChunk(K, size)
        IN  /\ R = Kernel(A, B, K, M, N, P)
            /\ \A r \in Ranks :
                   ScatterBlock(R, cnt * M * P, r) =
                       Kernel(ScatterBlock(A, cnt * M * N, r),
                              ScatterBlock(B, cnt * N * P, r), cnt, M, N, P)

\* a gathered result of several ranks with several matrices each, a shared
\* dimension above 1 and blocks that differ
C7_Witness ==
    /\ GatherDone
    /\ size >= 2 /\ StrictChunk(K, size) >= 2 /\ N >= 2 /\ M # P
    /\ ScatterBlock(R, StrictChunk(K, size) * M * P, 0)
           # ScatterBlock(R, StrictChunk(K, size) * M * P, 1)

\* no field of the records holds a comma or a newline
CleanField(f) == FindChar(f, Comma) = -1 /\ FindChar(f, Newline) = -1

CleanList(cs) == \A k \in 1..Len(cs) : CleanField(cs[k].name) /\ CleanField(cs[k].phone)

NulFree(cs) ==
    \A k \in 1..Len(cs) : FindChar(cs[k].name, Nul) = -1 /\ FindChar(cs[k].phone, Nul) = -1

Written == prog = "search" /\ writes # <<>>

\* C8 as stated: for records whose fields hold no comma and no newline, the
\* text rank 0 writes to output.txt is check(record, query) over the whole
\* phonebook in record order, as a run of one rank writes it.
C8_AsStated ==
    (Written /\ CleanList(contacts[0])) =>
        output.data = SearchAll(contacts[0], search_term)

\* C8 for records that hold no terminator character either: the output of
\* every run is that of a run of one rank.
C8_WithoutTerminator ==
    (Written /\ CleanList(contacts[0]) /\ NulFree(contacts[0])) =>
        output.data = SearchAll(contacts[0], search_term)

\* C9: for every list of records whose fields hold no comma and no newline,
\* string_to_contacts(vector_to_string(cs, 0, |cs|)) is cs: the same length,
\* order, names and phones.
C9_RoundTrip ==
    (prog = "codec" /\ pc[0] = "decoded" /\ CleanList(fin)) =>
        /\ Len(fout.recs) = Len(fin)
        /\ \A k \in 1..Len(fin) :
               fout.recs[k].name = fin[k].name /\ fout.recs[k].phone = fin[k].phone

\* two records decoded, one with both fields empty and one with none empty
C9_Witness ==
    /\ prog = "codec" /\ pc[0] = "decoded" /\ CleanList(fin)
    /\ Len(fin) = 2
    /\ fin[1].name = <<>> /\ fin[1].phone = <<>>
    /\ fin[2].name # <<>> /\ fin[2].phone # <<>>
    /\ fout.recs = fin

\* C10: in the search program only rank 0 writes output.txt, at most once,
\* exactly once in a run it returns 0 from, and only after it has received
\* the result frame of every worker.
C10_SoleWriterAfterCollect ==
    prog = "search" =>
        /\ writes \in {<<>>, <<0>>}
        /\ output.exists <=> writes # <<>>
        /\ writes # <<>> =>
               \A w \in Workers :
                   Len(recvLog[<<w, 0>>]) = 1 /\ Len(rcvdMsgs[<<w, 0>>]) = 2
        /\ exitCode[0] = 0 => writes = <<0>>
        /\ \A r \in Ranks : pc[r] = "write" => r = 0

\* rank 0 has written the file in a run with two workers
C10_Witness ==
    /\ Written /\ size = 3
    /\ writes = <<0>>
    /\ exitCode[0] = 0

(***************************************************************************)
(* What a worker holds.                                                    *)
(***************************************************************************)
\* the records of the phonebook of rank 0 at the indices of a range
RecordsAt(range) == {contacts[0][j + 1] : j \in range}

HeldBy(r) == {contacts[r][k] : k \in 1..Len(contacts[r])}

\* the records of chunk i of the phonebook, in order
ChunkOf(i) ==
    [k \in 1..Cardinality(WorkerRange(total, size, i)) |->
        contacts[0][i * chunk + k]]

\* C11 as stated: in every state of the search program the records a worker
\* of rank i >= 1 holds are records of its own chunk
\* [i * chunk, min((i + 1) * chunk, T)) of the phonebook.
C11_AsStated ==
    prog = "search" =>
        \A r \in Workers : HeldBy(r) \subseteq RecordsAt(WorkerRange(total, size, r))

\* C11 for chunks without a terminator character: the worker holds the
\* records of its chunk and no other.
C11_WithoutTerminator ==
    prog = "search" =>
        \A r \in Workers :
            (pc[r] \in {"send_len", "send_text", "finalize", "done"} /\ exitCode[r] # 1
             /\ NulFree(ChunkOf(r)))
                => contacts[r] = ChunkOf(r)

(***************************************************************************)
(* Termination with synchronous sends.                                     *)
(***************************************************************************)
\* C12: with sufficient arguments, for every size >= 1 and every phonebook,
\* when every send is synchronous the search program never stops with a rank
\* that has not returned, no rank returns anything but 0, a worker returns
\* only after rank 0 has taken its result frame, and every rank eventually
\* returns 0.
C12_SyncTerminates ==
    /\ [](SufficientArgs =>
            /\ (\E r \in Ranks : pc[r] # "done") => ENABLED NextSyncSearch
            /\ \A r \in Ranks : exitCode[r] \in {Running, 0} /\ pc[r] # "aborted"
            /\ \A w \in Workers :
                   (pc[w] = "done" \/ (pc[w] = "finalize" /\ ~blocked[w])) =>
                       /\ sentLog[<<w, 0>>] = <<result[w]>>
                       /\ Len(rcvdMsgs[<<w, 0>>]) = 2)
    /\ (SufficientArgs ~> AllExited(0))

\* worker 2 waits in the synchronous send of its result header while rank 0
\* has not yet taken the result of worker 1
C12_Witness ==
    /\ SufficientArgs /\ size = 3 /\ SyncOnly
    /\ pc[2] = "send_text" /\ blocked[2]
    /\ pc[1] = "send_text" /\ blocked[1]
    /\ pc[0] = "compute"
    /\ total > 0

(***************************************************************************)
(* The matrix kernel.                                                      *)
(***************************************************************************)
InRange(X) == \A e \in 1..Len(X) : X[e] \in 0..(Modulus - 1)

Computed(r) == prog = "matrix" /\ <<r, "compute">> \in steps

\* the indices k, i, j of element e of localR
ElemK(e) == (e - 1) \div (M * P)
ElemI(e) == ((e - 1) \div P) % M
ElemJ(e) == (e - 1) % P

\* C13: in the matrix program every element of A and B is in [0, 99], every
\* element of every localR the kernel has filled and of the gathered R is in
\* [0, 99], and while the kernel accumulates an element the sum of the first
\* l reduced products is in [0, 99 * l].
C13_ResultInRange ==
    prog = "matrix" =>
        /\ InRange(A) /\ InRange(B) /\ InRange(R)
        /\ \A r \in Ranks :
               /\ InRange(localA[r]) /\ InRange(localB[r]) /\ InRange(localR[r])
               /\ Computed(r) =>
                      /\ Len(localR[r]) = StrictChunk(K, size) * M * P
                      /\ \A e \in 1..Len(localR[r]) : \A l \in 0..N :
                             DotMod(localA[r], localB[r], M, N, P,
                                    ElemK(e), ElemI(e), ElemJ(e), l)
                                 \in 0..((Modulus - 1) * l)

\* a rank has computed an element whose sum of reduced products is 100 or
\* more before the last reduction
C13_Witness ==
    /\ prog = "matrix" /\ N >= 2
    /\ \E r \in Ranks :
           /\ Computed(r)
           /\ \E e \in 1..Len(localR[r]) :
                  DotMod(localA[r], localB[r], M, N, P,
                         ElemK(e), ElemI(e), ElemJ(e), N) >= Modulus

\* the sum of terms[0 .. n - 1]
RECURSIVE SumOf(_, _)
SumOf(terms, n) == IF n = 0 THEN 0 ELSE terms[n - 1] + SumOf(terms, n - 1)

\* C14: in the matrix program, for every rank that has run the kernel and
\* every local k, i, j, localR[k][i][j] is
\* (sum over l in [0, N) of ((localA[k][i][l] * localB[k][l][j]) mod 100)) mod 100;
\* for a single 1x1 matrix pair with A = 7 and B = 13 the result is 91.
C14_KernelFormula ==
    prog = "matrix" =>
        \A r \in Ranks :
            Computed(r) =>
                /\ \A k \in 0..(StrictChunk(K, size) - 1) :
                   \A i \in 0..(M - 1) : \A j \in 0..(P - 1) :
                       localR[r][(k * M + i) * P + j + 1] =
                           SumOf([l \in 0..(N - 1) |->
                                     (localA[r][(k * M + i) * N + l + 1]
                                      * localB[r][(k * N + l) * P + j + 1]) % 100],
                                 N) % 100
                /\ (localA[r] = <<7>> /\ localB[r] = <<13>>) => localR[r] = <<91>>

\* the run of one rank on one 1x1 matrix pair with A = 7 and B = 13
C14_Witness ==
    /\ prog = "matrix" /\ size = 1
    /\ K = 1 /\ M = 1 /\ N = 1 /\ P = 1
    /\ Computed(0)
    /\ localA[0] = <<7>> /\ localB[0] = <<13>>
    /\ localR[0] = <<91>>

(***************************************************************************)
(* The search kernel.                                                      *)
(***************************************************************************)
\* q is s[a .. b - 1] for some a <= b: a contiguous run of s, anywhere in s
Occurs(q, s) == \E a \in 0..Len(s) : \E b \in a..Len(s) : SubSeq(s, a + 1, b) = q

HitLine(c) == c.name \o <<" ">> \o c.phone \o <<"\n">>

BobMarley == Contact(<<"B", "o", "b", " ", "M", "a", "r", "l", "e", "y">>,
                     <<"5", "5", "5", "-", "1", "2", "1", "2">>)

\* C15: check(c, q) is the line name + " " + phone + "\n" exactly when q is a
\* contiguous run of the characters of c.name, at any position and with the
\* case of every character kept, and is the empty string otherwise; with
\* another phone the same record matches or not as before.  The record
\* ("Bob Marley", "555-1212") gives its line for "Bob" and "" for "Zed".
C15_CheckIsSubstringTest ==
    (prog = "check" /\ pc[0] = "checked") =>
        /\ Occurs(fin.q, fin.c.name) => fout = HitLine(fin.c)
        /\ ~Occurs(fin.q, fin.c.name) => fout = <<>>
        /\ \A ph \in CheckPhones :
               (check(Contact(fin.c.name, ph), fin.q) = <<>>) <=> (fout = <<>>)
        /\ check(BobMarley, <<"B", "o", "b">>) = HitLine(BobMarley)
        /\ check(BobMarley, <<"Z", "e", "d">>) = <<>>
        /\ check(BobMarley, <<"b", "o", "b">>) = <<>>

\* a term that occurs inside the name and not at its start, checked against a
\* record whose phone holds the term too; and the same term missed by a name
\* that differs in case only
C15_Witness ==
    /\ prog = "check" /\ pc[0] = "checked"
    /\ fin.q = <<"b">>
    /\ fin.c.name = <<"a", "B", "b">>
    /\ fin.c.phone = <<"b">>
    /\ fout = <<"a", "B", "b", " ", "b", "\n">>
    /\ check(Contact(<<"a", "B">>, <<"b">>), <<"b">>) = <<>>

(***************************************************************************)
(* The barrier of the matrix program.                                      *)
(***************************************************************************)
PastBarrier(r) ==
    \/ pc[r] \in {"print", "finalize"}
    \/ pc[r] = "done" /\ exitCode[r] = 0
    \/ <<r, "print">> \in steps

\* C16: in the matrix program, when a rank is past MPI_Barrier (it is about to
\* print, has printed its timing line or has finalized), every rank has
\* called MPI_Barrier, and so every rank has run its kernel and has returned
\* from MPI_Gather.
C16_BarrierHolds ==
    prog = "matrix" =>
        \A r \in Ranks :
            PastBarrier(r) =>
                /\ barrier = Ranks
                /\ \A q \in Ranks :
                       /\ <<q, "compute">> \in steps
                       /\ <<q, "gather">> \in steps
                       /\ pc[q] \in {"in_barrier", "print", "finalize", "done"}

\* one of three ranks has printed and returned while another is still inside
\* MPI_Barrier
C16_Witness ==
    /\ prog = "matrix" /\ size = 3
    /\ \E r \in Ranks : \E q \in Ranks :
           /\ pc[r] = "done" /\ exitCode[r] = 0 /\ <<r, "print">> \in steps
           /\ pc[q] = "in_barrier"

(***************************************************************************)
(* Lines of a transferred text.                                            *)
(***************************************************************************)
\* the lines of t read one character at a time: cur is the line read so far
RECURSIVE ScanLines(_, _, _)
ScanLines(t, k, cur) ==
    IF k > Len(t) THEN <<cur>>
    ELSE IF t[k] = "\n" THEN <<cur>> \o ScanLines(t, k + 1, <<>>)
    ELSE ScanLines(t, k + 1, Append(cur, t[k]))

HasComma(line) == \E c \in 1..Len(line) : line[c] = ","

\* the position of the first comma of a line that has one
FirstComma(line) ==
    CHOOSE c \in 1..Len(line) :
        line[c] = "," /\ \A d \in 1..(c - 1) : line[d] # ","

\* the lines of a sequence of lines that hold a comma, in their order
RECURSIVE KeptLines(_)
KeptLines(ls) ==
    IF ls = <<>> THEN <<>>
    ELSE (IF HasComma(Head(ls)) THEN <<Head(ls)>> ELSE <<>>) \o KeptLines(Tail(ls))

\* C17: for every text, string_to_contacts returns one record for every line
\* of the text that holds a comma, in the order of the lines, with the name
\* the characters before the first comma and the phone those after it; empty
\* lines and lines without a comma give no record, and the call returns for
\* every text.
C17_DiscardsBadLines ==
    (prog = "parse" /\ pc[0] = "parsed") =>
        LET kept == KeptLines(ScanLines(fin, 1, <<>>))
        IN  /\ Len(fout) = Len(kept)
            /\ \A k \in 1..Len(kept) :
                   LET c == FirstComma(kept[k])
                   IN  /\ fout[k].name = SubSeq(kept[k], 1, c - 1)
                       /\ fout[k].phone = SubSeq(kept[k], c + 1, Len(kept[k]))

\* a text with an empty line, a line without a comma and two different lines
\* with a comma, the last of them without a newline after it
C17_Witness ==
    /\ prog = "parse" /\ pc[0] = "parsed"
    /\ fin = <<"\n", "a", "\n", ",", "\n", "a", ",">>
    /\ fout = <<Contact(<<>>, <<>>), Contact(<<"a">>, <<>>)>>

(***************************************************************************)
(* The order of the phases of the search program.                          *)
(***************************************************************************)
Ev(kind, peer) == [call |-> kind, peer |-> peer]

\* Distribute, Compute, Collect and Finish of rank 0: a send to every worker
\* in rank order, its search, a receive from every worker in rank order, the
\* writing of the file and the end
CoordinatorOrder ==
    [k \in 1..(size - 1) |-> Ev("send", k)]
        \o <<Ev("compute", 0)>>
        \o [k \in 1..(size - 1) |-> Ev("recv", k)]
        \o <<Ev("write", 0), Ev("finalize", 0)>>

\* Distribute, Compute, Collect and Finish of a worker
WorkerOrder(w) ==
    <<Ev("recv", 0), Ev("compute", w), Ev("send", 0), Ev("finalize", w)>>

Called(r, e) == \E k \in 1..Len(trace[r]) : trace[r][k] = e

\* C18: in a run of the search program with sufficient arguments the calls
\* of rank 0 are, in this order, one send_string to each worker 1 .. size - 1
\* in rank order (none to itself), its own search, one receive_string from
\* each worker in rank order, the writing and the end; it searches only when
\* both messages of every chunk frame have been sent.  The calls of a worker
\* are one receive_string from rank 0, its search, one send_string to rank 0
\* and the end; it searches only when it has received both messages of its
\* chunk frame, and sends only what its search has produced.
C18_PhaseOrder ==
    SufficientArgs =>
        /\ IsPrefix(trace[0], CoordinatorOrder)
        /\ pc[0] = "done" => trace[0] = CoordinatorOrder
        /\ \A w \in Workers :
               /\ IsPrefix(trace[w], WorkerOrder(w))
               /\ pc[w] = "done" => trace[w] = WorkerOrder(w)
               /\ Len(sentLog[<<0, w>>]) = (IF Called(0, Ev("send", w)) THEN 1 ELSE 0)
               /\ Len(recvLog[<<w, 0>>]) = (IF Called(0, Ev("recv", w)) THEN 1 ELSE 0)
               /\ Len(sentLog[<<w, 0>>]) = (IF Called(w, Ev("send", 0)) THEN 1 ELSE 0)
               /\ Len(recvLog[<<0, w>>]) = (IF Called(w, Ev("recv", 0)) THEN 1 ELSE 0)
               /\ Len(sentMsgs[<<0, w>>]) <= 2 /\ Len(sentMsgs[<<w, 0>>]) <= 2
               /\ Called(0, Ev("compute", 0)) => Len(sentMsgs[<<0, w>>]) = 2
               /\ Called(w, Ev("compute", w)) => Len(rcvdMsgs[<<0, w>>]) = 2
               /\ Called(w, Ev("send", 0)) =>
                      /\ Called(w, Ev("compute", w))
                      /\ sentLog[<<w, 0>>] = <<SearchAll(contacts[w], search_term)>>
        /\ \A r \in Ranks : \A q \in Ranks :
               r # q => (Len(sentLog[<<r, q>>]) > 0 => (r = 0 \/ q = 0))

\* rank 0 is collecting in a run of three ranks: it has taken the result of
\* worker 1 and not yet that of worker 2, which has already returned
C18_Witness ==
    /\ SufficientArgs /\ size = 3
    /\ trace[0] = <<Ev("send", 1), Ev("send", 2), Ev("compute", 0), Ev("recv", 1)>>
    /\ trace[2] = WorkerOrder(2)
    /\ trace[1] = <<Ev("recv", 0), Ev("compute", 1), Ev("send", 0)>>

(***************************************************************************)
(* Empty chunks.                                                           *)
(***************************************************************************)
\* rank 0 has read the phonebook and the chunk of worker w holds no index
EmptyRange(w) == pc[0] \notin {"start", "read"} /\ w * chunk >= total

\* the two messages of a frame that carries the empty string
EmptyFrame == <<Msg("INT", 1), Msg("CHAR", <<Nul>>)>>

\* C19: in a run of the search program with sufficient arguments a worker w
\* with w * chunk >= T is sent nothing but one frame with header 1 and an
\* empty payload, decodes no record, finds no hit and sends nothing but one
\* frame with header 1 and an empty result, which adds nothing to the result
\* of rank 0: when every worker has an empty chunk the output is what rank 0
\* found itself.  Every run with such a worker ends with every rank returned
\* 0, both frames exchanged and the output written.
C19_EmptyChunkHandshake ==
    /\ [](SufficientArgs =>
            \A w \in Workers :
                EmptyRange(w) =>
                    /\ IsPrefix(sentMsgs[<<0, w>>], EmptyFrame)
                    /\ IsPrefix(sentMsgs[<<w, 0>>], EmptyFrame)
                    /\ IsPrefix(sentLog[<<0, w>>], << <<>> >>)
                    /\ IsPrefix(sentLog[<<w, 0>>], << <<>> >>)
                    /\ contacts[w] = <<>> /\ result[w] = <<>>
                    /\ \A k \in 1..Len(recvLog[<<0, w>>]) :
                           recvLog[<<0, w>>][k].hdr = 1 /\ recvLog[<<0, w>>][k].res = <<>>
                    /\ \A k \in 1..Len(recvLog[<<w, 0>>]) :
                           recvLog[<<w, 0>>][k].hdr = 1 /\ recvLog[<<w, 0>>][k].res = <<>>
                    /\ pc[w] = "done" => rcvdMsgs[<<0, w>>] = EmptyFrame
                    /\ Written =>
                           /\ rcvdMsgs[<<w, 0>>] = EmptyFrame
                           /\ EmptyRange(1) =>
                                  output.data = SearchAll(contacts[0], search_term))
    /\ ((SufficientArgs /\ \E w \in Workers : EmptyRange(w))
            ~> (AllExited(0) /\ Drained /\ Written))

\* a finished run of three ranks on four records: worker 2 had the empty
\* chunk [4, 4), worker 1 a chunk of two records, and the output holds hits
C19_Witness ==
    /\ SufficientArgs /\ size = 3 /\ total = 4
    /\ AllExited(0) /\ Written
    /\ EmptyRange(2) /\ ~EmptyRange(1)
    /\ rcvdMsgs[<<0, 2>>] = EmptyFrame
    /\ rcvdMsgs[<<2, 0>>] = EmptyFrame
    /\ Len(contacts[1]) = 2
    /\ output.data # <<>>

(***************************************************************************)
(* A worker that fails.                                                    *)
(***************************************************************************)
\* rank 0 is in receive_string(w)
InReceiveFor(w) == pc[0] \in {"recv_len", "recv_text"} /\ loop_i = w

\* rank 0 is in an MPI_Send to w that has not returned: the last message to w
\* is a synchronous one that w has not taken
InSendTo(w) ==
    /\ w \in Workers
    /\ blocked[0]
    /\ chan[<<0, w>>] # <<>>
    /\ chan[<<0, w>>][Len(chan[<<0, w>>])].sync

StalledOn(w) == InReceiveFor(w) \/ InSendTo(w)

\* C20 as stated: when a worker has failed before sending its result frame,
\* rank 0 ends up in the receive for that worker and stays there forever.
C20_AsStated ==
    \A w \in 1..(MaxS - 1) :
        (SufficientArgs /\ Crashed(w)) ~> [](InReceiveFor(w))

\* C20 amended: when a worker w has failed before sending its result frame,
\* rank 0 never writes output.txt and never returns, it receives nothing from
\* a worker of a higher rank, no frame is sent twice, and rank 0 ends up
\* either in receive_string(w) or, when the send is synchronous and w failed
\* before receiving its chunk, in an MPI_Send of send_string(text, w), and
\* once there it stays there.
C20_StallsForever ==
    /\ [](SufficientArgs =>
            \A w \in Workers :
                Crashed(w) =>
                    /\ pc[0] \notin {"write", "finalize", "done", "aborted"}
                    /\ ~output.exists /\ writes = <<>>
                    /\ exitCode[0] = Running
                    /\ recvLog[<<w, 0>>] = <<>>
                    /\ \A v \in Workers : v > w => rcvdMsgs[<<v, 0>>] = <<>>
                    /\ \A v \in Workers : Len(sentLog[<<0, v>>]) <= 1)
    /\ [][\A w \in Workers :
              (SufficientArgs /\ Crashed(w) /\ StalledOn(w)) => StalledOn(w)']_vars
    /\ ((SufficientArgs /\ \E w \in Workers : Crashed(w))
            ~> (\E w \in Workers : Crashed(w) /\ StalledOn(w)))

\* worker 2 of three has failed before receiving its chunk: rank 0 waits in
\* the synchronous send of that chunk, and worker 1, which has searched its
\* chunk, waits in the send of its result
C20_Witness ==
    /\ SufficientArgs /\ size = 3
    /\ Crashed(2)
    /\ rcvdMsgs[<<0, 2>>] = <<>>
    /\ InSendTo(2)
    /\ Called(1, Ev("compute", 1))
    /\ pc[1] = "send_text" /\ blocked[1]

====
